---- MODULE Spec2Model ----
(***************************************************************************)
(* CropSight: the field analysis backend (app/api/analyze_field/route.ts). *)
(*                                                                         *)
(* The POST handler is an async function: it parses the request body,      *)
(* waits for a timer, builds the result object `mockResponse` from the     *)
(* body and from calls to Math.random(), optionally awaits the narrative   *)
(* service (generateAIInsights) and answers.  Two handler invocations are  *)
(* modelled; they interleave at their awaits (Spec).                       *)
(*                                                                         *)
(* The page (frontend/app/page.tsx) is modelled by handleAnalyze,           *)
(* downloadReport and what it renders of a result; SpecApp runs the page   *)
(* against one invocation slot of the route.  SpecStats evaluates          *)
(* ndvi_stats over every combination of its four draws.  SpecMap runs one  *)
(* MapComponent (the field map) through renders and its unmount.           *)
(*                                                                         *)
(* Numbers.  Math.random() returns k / RandDen for k in 0 .. RandDen - 1.  *)
(* Every real quantity of the result is held as an integer number of       *)
(* units, one unit being 1 / (1000 * RandDen), so that the arithmetic of   *)
(* the handler is exact: Lit(650) is the literal 0.65, and a draw k/RandDen*)
(* is the integer 1000 * k.  Floating-point rounding is not modelled.      *)
(***************************************************************************)
EXTENDS Integers, Sequences, FiniteSets, TLC

\* Resolution of Math.random(): the draws are 0/RandDen .. (RandDen-1)/RandDen.
RandDen == 3

\* Day number of `new Date()` when the result is built.
Today == 200

\* Array.from({ length: 7 }, ...) of ndvi_time_series.
NdviPoints == 7

\* Array.from({ length: 10 }, ...) of rainfall_data.
RainfallDays == 10

\* Days between two points of the NDVI series: (6 - i) * 15.
NdviStepDays == 15

\* `|| 3`: the zone count used when body.num_zones is falsy.
DefaultZones == 3

Handlers == {1, 2}

\* handleAnalyze runs the model lets the page start.
MaxRuns == 2

\* Reports the model lets the page download.
MaxDownloads == 1

\* Maps the model lets one MapComponent make.
MaxMaps == 3

VARIABLES
    pc,            \* pc[h]: where invocation h of POST stands
    request,       \* request[h]: the incoming HTTP request
    body,          \* body[h]: the parsed request body (const body)
    mockResponse,  \* mockResponse[h]: the result object under construction
    response,      \* response[h]: what NextResponse.json(...) returned
    narrative,     \* narrative[h]: what the narrative service answered h
    calls,         \* calls[h]: fetches of the narrative service made by h
    \* the page (NDVIAnalysis, page.tsx)
    formData,      \* useState formData
    results,       \* useState results (Undefined is null)
    loading,       \* useState loading
    error,         \* useState error (Undefined is null)
    progress,      \* useState progress, in thirds of a percent
    currentStep,   \* useState currentStep
    uiPc,          \* where the running handleAnalyze stands
    stepIdx,       \* i of the progress loop of handleAnalyze
    runForm,       \* formData as the running handleAnalyze closed over it
    sent,          \* fetches of the backend made by the running handleAnalyze
    runs,          \* handleAnalyze runs started
    net,           \* the fetch of the page: request in flight, or its reply
    active,        \* handleAnalyze runs started and not yet through finally
    resultsRequest,\* the request body whose response is in results
    downloads,     \* report files handed to the browser
    \* the statistics of a result, as a function of its four draws
    statsIn,
    statsOut,
    \* one MapComponent
    mcPhase,       \* new, effect (pending), idle, cleanup (pending),
                   \* unmounting (cleanup pending), unmounted
    mcProps,       \* the props of the last render
    mapInstanceRef,\* mapInstanceRef.current (Undefined is null): a map id
    liveMaps,      \* the maps made by L.map and not removed
    created        \* calls of L.map so far

backendVars == <<pc, request, body, mockResponse, response, narrative, calls>>

uiVars == <<formData, results, loading, error, progress, currentStep,
            uiPc, stepIdx, runForm, sent, runs, net, active, resultsRequest,
            downloads>>

statVars == <<statsIn, statsOut>>

mapVars == <<mcPhase, mcProps, mapInstanceRef, liveMaps, created>>

vars == <<backendVars, uiVars, statVars, mapVars>>

----------------------------------------------------------------------------
(* Numbers *)

\* The literal m / 1000, in units.
Lit(m) == m * RandDen

\* x * (m / 1000), in units.
MulLit(x, m) == (x * m) \div 1000

\* The values Math.random() can return, in units: k / RandDen.
Rand == {1000 * k : k \in 0 .. (RandDen - 1)}

\* Optional values: <<>> is undefined (absent), <<v>> is the value v.
Undefined == <<>>
Some(v) == <<v>>

\* JavaScript truthiness of an optional number: undefined and 0 are falsy.
Truthy(opt) == opt # Undefined /\ opt[1] # 0

\* NaN, held like an absent number (JSON.stringify writes it as null).
NaN == <<>>

\* opt || dflt
OrElse(opt, dflt) == IF Truthy(opt) THEN opt[1] ELSE dflt

RECURSIVE SeqSum(_)
SeqSum(s) == IF s = <<>> THEN 0 ELSE Head(s) + SeqSum(Tail(s))

SeqMax(s) == CHOOSE x \in {s[i] : i \in 1 .. Len(s)} :
                \A j \in 1 .. Len(s) : s[j] <= x

----------------------------------------------------------------------------
(* Request bodies: the form data the frontend sends (page.tsx, formData),  *)
(* with the edits a caller can make to it.                                 *)

FormDefault ==
    [ latitude          |-> Some(30900),    \* 30.9, in thousandths of a degree
      longitude         |-> Some(75800),    \* 75.8
      buffer_size       |-> 250,
      start_date        |-> Today - 90,
      end_date          |-> Today,
      clustering_method |-> "K-Means",
      num_zones         |-> Some(3),
      crop_type         |-> "Wheat",
      crop_growth_stage |-> "Vegetative",
      eps_value         |-> 50,      \* 0.05
      bandwidth         |-> 100,     \* 0.1
      groq_api_key      |-> "",
      use_ai_insights   |-> FALSE ]

NumZonesValues == {Undefined, Some(-1), Some(0), Some(1), Some(2), Some(3)}

Bodies ==
    {[FormDefault EXCEPT !.num_zones = z] : z \in NumZonesValues}
    \cup {[FormDefault EXCEPT !.clustering_method = "Mean Shift",
                              !.num_zones = z] : z \in {Some(2), Some(5)}}
    \cup {[FormDefault EXCEPT !.clustering_method = "DBSCAN", !.eps_value = 0],
          [FormDefault EXCEPT !.clustering_method = "Mean Shift", !.bandwidth = 0],
          [FormDefault EXCEPT !.crop_type = "Rice", !.crop_growth_stage = "Flowering"],
          [FormDefault EXCEPT !.use_ai_insights = TRUE, !.groq_api_key = "gsk_key"],
          [FormDefault EXCEPT !.use_ai_insights = TRUE]}

\* An HTTP request: its text is JSON (of a body) or is not.
Requests == {[parsable |-> TRUE, json |-> b] : b \in Bodies}
            \cup {[parsable |-> FALSE]}

NoRequest == [parsable |-> FALSE, none |-> TRUE]
NoBody == [none |-> TRUE]
NoResponse == [status |-> 0]

----------------------------------------------------------------------------
(* The draws of one invocation.  The handler calls Math.random() 26 times; *)
(* the model explores the draw vectors that take two values a and b, laid  *)
(* out so that neighbouring quantities get different draws.                *)

Draws(a, b) ==
    [ mean    |-> a,
      stddev  |-> b,
      min     |-> b,
      max     |-> a,
      time    |-> a,
      ndvi    |-> [i \in 1 .. NdviPoints |-> IF i % 2 = 1 THEN b ELSE a],
      trend   |-> b,
      rain    |-> [i \in 1 .. RainfallDays |-> IF i % 2 = 1 THEN a ELSE b],
      total   |-> a,
      avg     |-> b,
      maxrain |-> a ]

DrawSet == {Draws(a, b) : a \in Rand, b \in Rand}

----------------------------------------------------------------------------
(* The result object *)

\* ndvi_stats with max centred on 0.65 like mean.
NdviStatsLowMax(rnd) ==
    [ mean   |-> Lit(650) + MulLit(rnd.mean - Lit(500), 200),
      stddev |-> Lit(120) + MulLit(rnd.stddev - Lit(500), 50),
      min    |-> Lit(250) + MulLit(rnd.min - Lit(500), 100),
      max    |-> Lit(650) + MulLit(rnd.max - Lit(500), 100) ]

\* ndvi_stats
NdviStats(rnd) ==
    [ mean   |-> Lit(650) + MulLit(rnd.mean - Lit(500), 200),
      stddev |-> Lit(120) + MulLit(rnd.stddev - Lit(500), 50),
      min    |-> Lit(250) + MulLit(rnd.min - Lit(500), 100),
      max    |-> Lit(850) + MulLit(rnd.max - Lit(500), 100) ]

\* One recommendation string: its text, and the values interpolated in it.
Item(text, cites) == [text |-> text, cites |-> cites]

HealthGoodText == "Field shows good overall vegetation health based on NDVI analysis."
MaintainText == "Focus on maintaining current management practices in high-vigor zones."
VariableRateText == "Consider variable rate application based on the ${n} identified management zones."
SoilSamplingText == "Take soil samples from each zone to determine specific nutrient requirements."
LowVigorText == "Monitor low-vigor areas for potential stress factors or soil compaction."

\* recommendations, the soil-sampling item only with several zones.
RecommendationsSoilIfSeveralZones(b) ==
    << Item(HealthGoodText, <<>>),
       Item(MaintainText, <<>>),
       Item(VariableRateText, <<OrElse(b.num_zones, DefaultZones)>>) >>
    \o (IF OrElse(b.num_zones, DefaultZones) > 1
        THEN <<Item(SoilSamplingText, <<>>)>> ELSE <<>>)
    \o << Item(LowVigorText, <<>>) >>

\* recommendations, the soil-sampling item moved before the zone item.
RecommendationsSoilFirst(b) ==
    << Item(HealthGoodText, <<>>),
       Item(MaintainText, <<>>),
       Item(SoilSamplingText, <<>>),
       Item(VariableRateText, <<OrElse(b.num_zones, DefaultZones)>>),
       Item(LowVigorText, <<>>) >>

\* recommendations
Recommendations(b) ==
    << Item(HealthGoodText, <<>>),
       Item(MaintainText, <<>>),
       Item(VariableRateText, <<OrElse(b.num_zones, DefaultZones)>>),
       Item(SoilSamplingText, <<>>),
       Item(LowVigorText, <<>>) >>

\* ndvi_time_series with the dates counted forward from today: i * 15 days
\* back instead of (6 - i) * 15.
NdviTimeSeriesNewestFirst(rnd) ==
    [ dates       |-> [i \in 1 .. NdviPoints |-> Today - (i - 1) * NdviStepDays],
      ndvi_values |-> [i \in 1 .. NdviPoints |->
                          Lit(300) + (i - 1) * Lit(100)
                            + MulLit(rnd.ndvi[i] - Lit(500), 100)],
      mean_ndvi   |-> Lit(650),
      trend       |-> IF rnd.trend > Lit(500) THEN "increasing" ELSE "decreasing" ]

\* ndvi_time_series.  Index i of the source is i - 1 here.  A date is the
\* number of its day: date.setDate(date.getDate() - n) is n days earlier,
\* and the "YYYY-MM-DD" strings of toISOString() order as their days do.
NdviTimeSeries(rnd) ==
    [ dates       |-> [i \in 1 .. NdviPoints |->
                          Today - ((NdviPoints - 1) - (i - 1)) * NdviStepDays],
      ndvi_values |-> [i \in 1 .. NdviPoints |->
                          Lit(300) + (i - 1) * Lit(100)
                            + MulLit(rnd.ndvi[i] - Lit(500), 100)],
      mean_ndvi   |-> Lit(650),
      trend       |-> IF rnd.trend > Lit(500) THEN "increasing" ELSE "decreasing" ]

\* rainfall_data with the samples centred on 0 like the NDVI noise.
RainfallDataCentred(rnd) ==
    [ dates              |-> [i \in 1 .. RainfallDays |->
                                 Today - ((RainfallDays - 1) - (i - 1))],
      rainfall_values    |-> [i \in 1 .. RainfallDays |->
                                 (rnd.rain[i] - Lit(500)) * 20],
      total_rainfall     |-> Lit(43200) + rnd.total * 20,
      avg_daily_rainfall |-> Lit(6170) + rnd.avg * 3,
      max_daily_rainfall |-> Lit(15300) + rnd.maxrain * 10 ]

\* rainfall_data
RainfallData(rnd) ==
    [ dates              |-> [i \in 1 .. RainfallDays |->
                                 Today - ((RainfallDays - 1) - (i - 1))],
      rainfall_values    |-> [i \in 1 .. RainfallDays |-> rnd.rain[i] * 20],
      total_rainfall     |-> Lit(43200) + rnd.total * 20,
      avg_daily_rainfall |-> Lit(6170) + rnd.avg * 3,
      max_daily_rainfall |-> Lit(15300) + rnd.maxrain * 10 ]

\* mockResponse with a recommendation added from the drawn trend.
MockResponseTrendItem(b, rnd) ==
    [ ndvi_stats        |-> NdviStats(rnd),
      zones_identified  |-> OrElse(b.num_zones, DefaultZones),
      processing_time   |-> Lit(1500) + rnd.time,
      recommendations   |-> Recommendations(b) \o
                              (IF NdviTimeSeries(rnd).trend = "decreasing"
                               THEN <<Item("trend warning", <<>>)>>
                               ELSE <<Item("trend confirmation", <<>>)>>),
      ndvi_time_series  |-> NdviTimeSeries(rnd),
      rainfall_data     |-> Some(RainfallData(rnd)),
      crop_type         |-> b.crop_type,
      crop_growth_stage |-> b.crop_growth_stage,
      ai_insights       |-> Undefined ]

\* const mockResponse = { ... }
MockResponse(b, rnd) ==
    [ ndvi_stats        |-> NdviStats(rnd),
      zones_identified  |-> OrElse(b.num_zones, DefaultZones),
      processing_time   |-> Lit(1500) + rnd.time,
      recommendations   |-> Recommendations(b),
      ndvi_time_series  |-> NdviTimeSeries(rnd),
      rainfall_data     |-> Some(RainfallData(rnd)),
      crop_type         |-> b.crop_type,
      crop_growth_stage |-> b.crop_growth_stage,
      ai_insights       |-> Undefined ]

----------------------------------------------------------------------------
(* What the page renders of a result (frontend/app/page.tsx) *)

\* The label with i === results.zones_identified instead of
\* results.zones_identified - 1.
ZoneLabelLastIsN(i, n) ==
    IF i = 0 THEN "Low vigor"
    ELSE IF i = n THEN "High vigor"
    ELSE "Moderate vigor"

\* The label of the zone of index i (from 0) among n zones.
ZoneLabel(i, n) ==
    IF i = 0 THEN "Low vigor"
    ELSE IF i = n - 1 THEN "High vigor"
    ELSE "Moderate vigor"

\* Array.from({ length: n }, (_, i) => ...): "Zone k" is at k = i + 1.
\* A length below 1 gives the empty list.
ZoneListing(n) == [k \in 1 .. n |-> ZoneLabel(k - 1, n)]

\* formatNDVIData / formatRainfallData: one chart point per date, with the
\* value of the same index (undefined when values has no such index).
FormatData(dates, values) ==
    [i \in 1 .. Len(dates) |->
        [ date  |-> dates[i],
          value |-> IF i \in 1 .. Len(values) THEN Some(values[i]) ELSE Undefined ]]

\* The fields of ai_insights the page reads when it is truthy:
\* report, suggestions.map(...), risk_assessment, management_plan.
RenderedInsightFields == {"report", "suggestions", "risk_assessment", "management_plan"}

----------------------------------------------------------------------------
(* The narrative service *)

\* What `data.choices[0].message.content` can be when the reply is JSON
\* with choices: JSON text of the shape asked for, JSON text of another
\* object, the JSON text "null", or prose that is no JSON.
ShapedInsights ==
    [ report |-> "report", suggestions |-> <<"suggestion">>,
      risk_assessment |-> "risk", management_plan |-> "plan" ]

Contents ==
    { [isJson |-> TRUE, value |-> Some(ShapedInsights)],
      [isJson |-> TRUE, value |-> Some([summary |-> "text"])],
      [isJson |-> TRUE, value |-> Undefined],
      [isJson |-> FALSE, text |-> "prose"] }

\* The inner try / catch of generateAIInsights: JSON.parse(aiResponse), or
\* the structured fallback.  Undefined stands for a falsy value (null).
ParseInsights(content) ==
    IF content.isJson
    THEN content.value
    ELSE Some([ report |-> content.text,
                suggestions |-> << "Monitor field conditions regularly",
                                   "Consider soil testing in low-performing areas",
                                   "Implement variable rate application based on zones" >>,
                risk_assessment |-> "Based on the analysis, monitor for potential stress indicators.",
                management_plan |-> "Continue current management practices and monitor field development." ])

\* if (aiInsights) { mockResponse.ai_insights = aiInsights }
AttachInsights(mock, insights) ==
    IF insights # Undefined THEN [mock EXCEPT !.ai_insights = insights] ELSE mock

\* NextResponse.json(mockResponse)
Ok(json) == [status |-> 200, json |-> json]

\* Failed without its { status: 500 }.
FailedWithoutStatus == [status |-> 200, json |-> [error |-> "Analysis failed"]]

\* NextResponse.json({ error: "Analysis failed" }, { status: 500 })
Failed == [status |-> 500, json |-> [error |-> "Analysis failed"]]

----------------------------------------------------------------------------
(* The POST handler *)

NoReply == [kind |-> "none"]

\* What the narrative service can answer to response.json(): a body that
\* is no JSON, JSON without choices, or JSON with a content.
Replies ==
    {[kind |-> "not_json"], [kind |-> "no_choices"]}
    \cup {[kind |-> "content", content |-> c] : c \in Contents}

InitBackend ==
    /\ pc = [h \in Handlers |-> "idle"]
    /\ request = [h \in Handlers |-> NoRequest]
    /\ body = [h \in Handlers |-> NoBody]
    /\ mockResponse = [h \in Handlers |-> NoBody]
    /\ response = [h \in Handlers |-> NoResponse]
    /\ narrative = [h \in Handlers |-> NoReply]
    /\ calls = [h \in Handlers |-> 0]

\* POST(r) starts in slot h: it awaits request.json().
Start(h, r) ==
    /\ request' = [request EXCEPT ![h] = r]
    /\ pc' = [pc EXCEPT ![h] = "await_json"]
    /\ body' = [body EXCEPT ![h] = NoBody]
    /\ mockResponse' = [mockResponse EXCEPT ![h] = NoBody]
    /\ response' = [response EXCEPT ![h] = NoResponse]
    /\ narrative' = [narrative EXCEPT ![h] = NoReply]
    /\ calls' = [calls EXCEPT ![h] = 0]

\* A request of some caller arrives and POST(request) starts.
POST_Start(h) ==
    /\ pc[h] = "idle"
    /\ \E r \in Requests : Start(h, r)
    /\ UNCHANGED <<uiVars, statVars, mapVars>>

\* request.json() settles: the body, or an exception caught by the outer catch.
POST_ParseBody(h) ==
    /\ pc[h] = "await_json"
    /\ IF request[h].parsable
       THEN /\ body' = [body EXCEPT ![h] = request[h].json]
            /\ pc' = [pc EXCEPT ![h] = "await_delay"]
            /\ UNCHANGED response
       ELSE /\ response' = [response EXCEPT ![h] = Failed]
            /\ pc' = [pc EXCEPT ![h] = "done"]
            /\ UNCHANGED body
    /\ UNCHANGED <<request, mockResponse, narrative, calls, uiVars, statVars, mapVars>>

\* POST_Build reading the body parsed by any invocation, as if `body` were
\* a variable of the module shared by the invocations.
POST_BuildSharedBody(h) ==
    /\ pc[h] = "await_delay"
    /\ \E rnd \in DrawSet, g \in Handlers :
         /\ body[g] # NoBody
         /\ LET mock == MockResponse(body[g], rnd) IN
            /\ mockResponse' = [mockResponse EXCEPT ![h] = mock]
            /\ IF body[g].use_ai_insights /\ body[g].groq_api_key # ""
               THEN /\ pc' = [pc EXCEPT ![h] = "await_fetch"]
                    /\ calls' = [calls EXCEPT ![h] = @ + 1]
                    /\ UNCHANGED response
               ELSE /\ pc' = [pc EXCEPT ![h] = "done"]
                    /\ response' = [response EXCEPT ![h] = Ok(mock)]
                    /\ UNCHANGED calls
    /\ UNCHANGED <<request, body, narrative, uiVars, statVars, mapVars>>

\* POST_Build calling the narrative service whenever use_ai_insights is set,
\* with or without a key.
POST_BuildIgnoresKey(h) ==
    /\ pc[h] = "await_delay"
    /\ \E rnd \in DrawSet :
         LET mock == MockResponse(body[h], rnd) IN
         /\ mockResponse' = [mockResponse EXCEPT ![h] = mock]
         /\ IF body[h].use_ai_insights
            THEN /\ pc' = [pc EXCEPT ![h] = "await_fetch"]
                 /\ calls' = [calls EXCEPT ![h] = @ + 1]
                 /\ UNCHANGED response
            ELSE /\ pc' = [pc EXCEPT ![h] = "done"]
                 /\ response' = [response EXCEPT ![h] = Ok(mock)]
                 /\ UNCHANGED calls
    /\ UNCHANGED <<request, body, narrative, uiVars, statVars, mapVars>>

\* The timer fires: mockResponse is built; the narrative call starts if asked
\* for (one fetch), otherwise the handler answers.
POST_Build(h) ==
    /\ pc[h] = "await_delay"
    /\ \E rnd \in DrawSet :
         LET mock == MockResponse(body[h], rnd) IN
         /\ mockResponse' = [mockResponse EXCEPT ![h] = mock]
         /\ IF body[h].use_ai_insights /\ body[h].groq_api_key # ""
            THEN /\ pc' = [pc EXCEPT ![h] = "await_fetch"]
                 /\ calls' = [calls EXCEPT ![h] = @ + 1]
                 /\ UNCHANGED response
            ELSE /\ pc' = [pc EXCEPT ![h] = "done"]
                 /\ response' = [response EXCEPT ![h] = Ok(mock)]
                 /\ UNCHANGED calls
    /\ UNCHANGED <<request, body, narrative, uiVars, statVars, mapVars>>

\* AI_FetchSettled with the error of a non-OK reply reaching the catch of
\* POST instead of the catch of generateAIInsights.
AI_FetchSettledThrows(h) ==
    /\ pc[h] = "await_fetch"
    /\ \E outcome \in {"rejected", "not_ok", "ok"} :
         /\ IF outcome = "ok"
            THEN /\ pc' = [pc EXCEPT ![h] = "await_ai_json"]
                 /\ UNCHANGED response
            ELSE /\ pc' = [pc EXCEPT ![h] = "done"]
                 /\ response' = [response EXCEPT ![h] =
                        IF outcome = "not_ok" THEN Failed ELSE Ok(mockResponse[h])]
         /\ narrative' = [narrative EXCEPT ![h] = [kind |-> outcome]]
    /\ UNCHANGED <<request, body, mockResponse, calls, uiVars, statVars, mapVars>>

\* AI_FetchSettled calling the service again after a non-OK reply.
AI_FetchSettledRetries(h) ==
    /\ pc[h] = "await_fetch"
    /\ \E outcome \in {"rejected", "not_ok", "ok"} :
         /\ IF outcome = "ok"
            THEN /\ pc' = [pc EXCEPT ![h] = "await_ai_json"]
                 /\ UNCHANGED <<response, calls>>
            ELSE IF outcome = "not_ok"
            THEN /\ calls' = [calls EXCEPT ![h] = @ + 1]
                 /\ UNCHANGED <<pc, response>>
            ELSE /\ pc' = [pc EXCEPT ![h] = "done"]
                 /\ response' = [response EXCEPT ![h] = Ok(mockResponse[h])]
                 /\ UNCHANGED calls
         /\ narrative' = [narrative EXCEPT ![h] = [kind |-> outcome]]
    /\ UNCHANGED <<request, body, mockResponse, uiVars, statVars, mapVars>>

\* fetch(groq) settles: rejected or answered with a non-OK status (the
\* catch returns null), or answered OK (response.json() is awaited).
AI_FetchSettled(h) ==
    /\ pc[h] = "await_fetch"
    /\ \E outcome \in {"rejected", "not_ok", "ok"} :
         /\ IF outcome = "ok"
            THEN /\ pc' = [pc EXCEPT ![h] = "await_ai_json"]
                 /\ UNCHANGED response
            ELSE /\ pc' = [pc EXCEPT ![h] = "done"]
                 /\ response' = [response EXCEPT ![h] = Ok(mockResponse[h])]
         /\ narrative' = [narrative EXCEPT ![h] = [kind |-> outcome]]
    /\ UNCHANGED <<request, body, mockResponse, calls, uiVars, statVars, mapVars>>

\* What generateAIInsights returns for a reply: null (Undefined) from the
\* catch, or what the inner try / catch gives for the content.
InsightsOf(reply) ==
    IF reply.kind = "content" THEN ParseInsights(reply.content) ELSE Undefined

\* response.json() of the narrative reply settles: no JSON, JSON without
\* choices (both end in the catch, null), or a content.
AI_JsonSettled(h) ==
    /\ pc[h] = "await_ai_json"
    /\ \E reply \in Replies :
         LET mock == AttachInsights(mockResponse[h], InsightsOf(reply))
         IN /\ mockResponse' = [mockResponse EXCEPT ![h] = mock]
            /\ response' = [response EXCEPT ![h] = Ok(mock)]
            /\ narrative' = [narrative EXCEPT ![h] = reply]
    /\ pc' = [pc EXCEPT ![h] = "done"]
    /\ UNCHANGED <<request, body, calls, uiVars, statVars, mapVars>>

----------------------------------------------------------------------------
(* ndvi_stats as a function of its four draws, each drawn on its own *)

StatDraws == [mean : Rand, stddev : Rand, min : Rand, max : Rand]

InitStats == statsIn = NoBody /\ statsOut = NoBody

\* ndvi_stats: { mean: ..., stddev: ..., min: ..., max: ... } is evaluated.
Summarize ==
    /\ statsIn \in StatDraws
    /\ statsOut = NoBody
    /\ statsOut' = NdviStats(statsIn)
    /\ UNCHANGED <<statsIn, backendVars, uiVars, mapVars>>

----------------------------------------------------------------------------
(* The page: handleAnalyze, downloadReport and the props of the field map *)

\* The forms the page is edited to.
Forms ==
    { FormDefault,
      [FormDefault EXCEPT !.latitude = Some(28600), !.longitude = Some(77200),
                          !.buffer_size = 500, !.start_date = Today - 30,
                          !.num_zones = Some(5), !.crop_type = "Rice",
                          !.crop_growth_stage = "Flowering"],
      [FormDefault EXCEPT !.use_ai_insights = TRUE, !.groq_api_key = "gsk_key"] }

\* const steps = [...]; if (formData.use_ai_insights) steps.push(...)
Steps(form) ==
    << "Fetching satellite imagery...",
       "Processing NDVI data...",
       "Performing clustering analysis...",
       "Analyzing rainfall patterns...",
       "Generating insights..." >>
    \o (IF form.use_ai_insights THEN <<"Generating AI-powered report...">> ELSE <<>>)

\* (i + 1) * (100 / steps.length), in thirds of a percent.
StepProgress(i, len) == ((i + 1) * 300) \div len

\* x.toFixed(digits) for x >= 0 in units: the nearest multiple of
\* 10^-digits (digits <= 3), as a number of such multiples, halves upwards.
ToFixed(x, digits) ==
    LET unit == RandDen * (IF digits = 3 THEN 1 ELSE IF digits = 2 THEN 10
                           ELSE IF digits = 1 THEN 100 ELSE 1000)
    IN (2 * x + unit) \div (2 * unit)

\* obj.name of a parsed JSON object: the value, or undefined.
Field(obj, name) == IF name \in DOMAIN obj THEN Some(obj[name]) ELSE Undefined

\* reportContent of downloadReport: the text of the report, from the form
\* as it is when the button is clicked and from the results.
ReportOf(form, res) ==
    [ location        |-> <<form.latitude, form.longitude>>,
      period          |-> <<form.start_date, form.end_date>>,
      crop_type       |-> form.crop_type,
      mean            |-> ToFixed(res.ndvi_stats.mean, 3),
      stddev          |-> ToFixed(res.ndvi_stats.stddev, 3),
      min             |-> ToFixed(res.ndvi_stats.min, 3),
      max             |-> ToFixed(res.ndvi_stats.max, 3),
      zones           |-> res.zones_identified,
      processing_time |-> ToFixed(res.processing_time, 1),
      recommendations |-> res.recommendations,
      ai              |-> IF res.ai_insights = Undefined THEN Undefined
                          ELSE Some([ report          |-> Field(res.ai_insights[1], "report"),
                                      risk_assessment |-> Field(res.ai_insights[1], "risk_assessment"),
                                      management_plan |-> Field(res.ai_insights[1], "management_plan") ]) ]

\* The props the page gives the MapComponent of the map tab.
MapProps(form, res) ==
    [ latitude   |-> form.latitude,
      longitude  |-> form.longitude,
      bufferSize |-> form.buffer_size,
      zones      |-> res.zones_identified ]

NoFetch == [kind |-> "none"]

InitUI ==
    /\ formData = FormDefault
    /\ results = Undefined
    /\ loading = FALSE
    /\ error = Undefined
    /\ progress = 0
    /\ currentStep = ""
    /\ uiPc = "idle"
    /\ stepIdx = 0
    /\ runForm = NoBody
    /\ sent = 0
    /\ runs = 0
    /\ net = NoFetch
    /\ active = 0
    /\ resultsRequest = NoBody
    /\ downloads = 0

\* An input of the form changes: setFormData({ ...formData, field: value }).
UI_Edit ==
    /\ \E f \in Forms : f # formData /\ formData' = f
    /\ UNCHANGED <<results, loading, error, progress, currentStep, uiPc,
                   stepIdx, runForm, sent, runs, net, active, resultsRequest,
                   downloads, backendVars, statVars, mapVars>>

\* UI_Analyze with a button that is not disabled while loading.
UI_AnalyzeAnytime ==
    /\ runs < MaxRuns
    /\ runs' = runs + 1
    /\ active' = active + 1
    /\ runForm' = formData
    /\ loading' = TRUE
    /\ error' = Undefined
    /\ stepIdx' = 0
    /\ currentStep' = Steps(formData)[1]
    /\ progress' = StepProgress(0, Len(Steps(formData)))
    /\ sent' = 0
    /\ uiPc' = "await_step"
    /\ UNCHANGED <<formData, results, net, resultsRequest, downloads,
                   backendVars, statVars, mapVars>>

\* The Analyze button (disabled while loading) is clicked: handleAnalyze
\* runs up to the first await of its progress loop.
UI_Analyze ==
    /\ ~loading
    /\ runs < MaxRuns
    /\ runs' = runs + 1
    /\ active' = active + 1
    /\ runForm' = formData
    /\ loading' = TRUE
    /\ error' = Undefined
    /\ stepIdx' = 0
    /\ currentStep' = Steps(formData)[1]
    /\ progress' = StepProgress(0, Len(Steps(formData)))
    /\ sent' = 0
    /\ uiPc' = "await_step"
    /\ UNCHANGED <<formData, results, net, resultsRequest, downloads,
                   backendVars, statVars, mapVars>>

\* The 1 s timer of the loop fires: the next step, or after the last step
\* the fetch of the backend with JSON.stringify(formData).
UI_StepTimer ==
    /\ uiPc = "await_step"
    /\ IF stepIdx + 1 < Len(Steps(runForm))
       THEN /\ stepIdx' = stepIdx + 1
            /\ currentStep' = Steps(runForm)[stepIdx + 2]
            /\ progress' = StepProgress(stepIdx + 1, Len(Steps(runForm)))
            /\ UNCHANGED <<uiPc, net, sent>>
       ELSE /\ net' = [kind |-> "request", body |-> runForm]
            /\ sent' = sent + 1
            /\ uiPc' = "await_fetch"
            /\ UNCHANGED <<stepIdx, currentStep, progress>>
    /\ UNCHANGED <<formData, results, loading, error, runForm, runs, active,
                   resultsRequest, downloads, backendVars, statVars, mapVars>>

\* The request of the page reaches the route and POST(request) starts: with
\* the text the page sent, or with a text cut short on its way, which
\* request.json() cannot parse.
POST_Receive(h) ==
    /\ net.kind = "request"
    /\ pc[h] \in {"idle", "done"}
    /\ \E r \in {[parsable |-> TRUE, json |-> net.body], [parsable |-> FALSE]} :
         Start(h, r)
    /\ net' = [kind |-> "processing"]
    /\ UNCHANGED <<formData, results, loading, error, progress, currentStep,
                   uiPc, stepIdx, runForm, sent, runs, active, resultsRequest,
                   downloads, statVars, mapVars>>

\* Caught without the finally block.
CaughtWithoutFinally(message) ==
    /\ error' = Some(message)
    /\ uiPc' = "idle"
    /\ net' = NoFetch
    /\ active' = active - 1
    /\ UNCHANGED <<formData, results, loading, progress, currentStep, stepIdx,
                   runForm, sent, runs, resultsRequest, downloads>>

\* Caught with a catch block that also runs setResults(null).
CaughtClearsResults(message) ==
    /\ error' = Some(message)
    /\ results' = Undefined
    /\ loading' = FALSE
    /\ progress' = 300
    /\ uiPc' = "idle"
    /\ net' = NoFetch
    /\ active' = active - 1
    /\ UNCHANGED <<formData, currentStep, stepIdx, runForm, sent, runs,
                   resultsRequest, downloads>>

\* catch (err) { setError(...) } finally { setLoading(false); setProgress(100) }
Caught(message) ==
    /\ error' = Some(message)
    /\ loading' = FALSE
    /\ progress' = 300
    /\ uiPc' = "idle"
    /\ net' = NoFetch
    /\ active' = active - 1
    /\ UNCHANGED <<formData, results, currentStep, stepIdx, runForm, sent, runs,
                   resultsRequest, downloads>>

\* fetch settles with the answer of POST: not OK throws "Analysis failed",
\* OK goes on to await response.json().
UI_FetchResponded(h) ==
    /\ uiPc = "await_fetch"
    /\ net.kind = "processing"
    /\ pc[h] = "done"
    /\ IF response[h].status = 200
       THEN /\ net' = [kind |-> "response", json |-> response[h].json]
            /\ uiPc' = "await_json"
            /\ UNCHANGED <<formData, results, loading, error, progress,
                           currentStep, stepIdx, runForm, sent, runs, active,
                           resultsRequest, downloads>>
       ELSE Caught("Analysis failed")
    /\ UNCHANGED <<backendVars, statVars, mapVars>>

\* fetch settles without the route having run: the network rejects it
\* (err.message of the TypeError), or a gateway answers with a non-OK status.
UI_FetchFailed ==
    /\ uiPc = "await_fetch"
    /\ net.kind = "request"
    /\ \E outcome \in {"rejected", "not_ok"} :
         Caught(IF outcome = "rejected" THEN "Failed to fetch" ELSE "Analysis failed")
    /\ UNCHANGED <<backendVars, statVars, mapVars>>

\* response.json() settles: setResults(data), "Analysis complete!", finally.
UI_JsonSettled ==
    /\ uiPc = "await_json"
    /\ results' = Some(net.json)
    /\ resultsRequest' = runForm
    /\ currentStep' = "Analysis complete!"
    /\ loading' = FALSE
    /\ progress' = 300
    /\ uiPc' = "idle"
    /\ net' = NoFetch
    /\ active' = active - 1
    /\ UNCHANGED <<formData, error, stepIdx, runForm, sent, runs, downloads,
                   backendVars, statVars, mapVars>>

\* The Download Report button (rendered with the results) is clicked: a file
\* with the text ReportOf(formData, results) is handed to the browser.
UI_DownloadReport ==
    /\ results # Undefined
    /\ downloads < MaxDownloads
    /\ downloads' = downloads + 1
    /\ UNCHANGED <<formData, results, loading, error, progress, currentStep,
                   uiPc, stepIdx, runForm, sent, runs, net, active,
                   resultsRequest, backendVars, statVars, mapVars>>

----------------------------------------------------------------------------
(* The field map: MapComponent (components/map-component), one instance    *)
(* from its mount to its unmount.  Leaflet is modelled by what the effect  *)
(* relies on: L.map(container) makes a live map, map.remove() ends it, and *)
(* setView rejects a centre that is NaN with an exception.                 *)

\* zoneColors
ZoneColors ==
    << "#ef4444", "#f97316", "#eab308", "#22c55e", "#3b82f6", "#8b5cf6", "#ec4899" >>

\* The circles of the loop `for (let i = 0; i < zones; i++)`: angles in
\* thousandths of a degree, radii (zoneRadius * 0.8) in millimetres.
ZoneCircles(p) ==
    [ k \in 1 .. (IF p.zones > 0 THEN p.zones ELSE 0) |->
        [ zone   |-> k,
          color  |-> ZoneColors[((k - 1) % Len(ZoneColors)) + 1],
          angle  |-> ((k - 1) * 360000) \div p.zones,
          radius |-> (p.bufferSize * 800) \div p.zones ] ]

\* The map the effect has built when it reaches `mapInstanceRef.current = map`.
LeafletMap(id, p) ==
    [ id       |-> id,
      view     |-> <<p.latitude, p.longitude>>,
      boundary |-> Some(p.bufferSize),
      circles  |-> ZoneCircles(p) ]

\* The map L.map(mapRef.current) has made when setView throws.
BareMap(id) ==
    [ id |-> id, view |-> <<>>, boundary |-> Undefined, circles |-> <<>> ]

\* The forms behind the props: those of the page, and the default form with
\* its latitude input emptied (Number.parseFloat("") is NaN).
MapForms == Forms \cup {[FormDefault EXCEPT !.latitude = NaN]}

\* zones_identified of the results shown: the zone counts of the forms and
\* the ends of the num_zones slider.
ZonesShown == {OrElse(f.num_zones, DefaultZones) : f \in Forms} \cup {2, 7}

PropsValues ==
    {MapProps(f, [zones_identified |-> z]) : f \in MapForms, z \in ZonesShown}

InitMap ==
    /\ mcPhase = "new"
    /\ mcProps = NoBody
    /\ mapInstanceRef = Undefined
    /\ liveMaps = {}
    /\ created = 0

\* The component is rendered for the first time: its effect is pending.
MC_Mount ==
    /\ mcPhase = "new"
    /\ \E p \in PropsValues : mcProps' = p
    /\ mcPhase' = "effect"
    /\ UNCHANGED <<mapInstanceRef, liveMaps, created, backendVars, uiVars, statVars>>

\* The component is rendered with other props: a dependency of the effect
\* changed, so its cleanup and then the effect are pending.
MC_Render ==
    /\ mcPhase = "idle"
    /\ created < MaxMaps
    /\ \E p \in PropsValues : p # mcProps /\ mcProps' = p
    /\ mcPhase' = "cleanup"
    /\ UNCHANGED <<mapInstanceRef, liveMaps, created, backendVars, uiVars, statVars>>

\* The component is removed from the page: the cleanup is pending.
MC_Unmount ==
    /\ mcPhase = "idle"
    /\ mcPhase' = "unmounting"
    /\ UNCHANGED <<mcProps, mapInstanceRef, liveMaps, created,
                   backendVars, uiVars, statVars>>

\* The cleanup the last effect returned runs.
MC_Cleanup ==
    /\ mcPhase \in {"cleanup", "unmounting"}
    /\ IF mapInstanceRef # Undefined
       THEN /\ liveMaps' = {m \in liveMaps : m.id # mapInstanceRef[1]}
            /\ mapInstanceRef' = Undefined
       ELSE UNCHANGED <<liveMaps, mapInstanceRef>>
    /\ mcPhase' = IF mcPhase = "cleanup" THEN "effect" ELSE "unmounted"
    /\ UNCHANGED <<mcProps, created, backendVars, uiVars, statVars>>

\* The effect runs (mapRef.current is the rendered div).  With a centre that
\* is NaN, setView throws once L.map has made the map: nothing is stored in
\* mapInstanceRef, no cleanup is returned, and React unmounts the component.
MC_Effect ==
    /\ mcPhase = "effect"
    /\ created' = created + 1
    /\ IF mcProps.latitude = NaN \/ mcProps.longitude = NaN
       THEN /\ liveMaps' = liveMaps \cup {BareMap(created + 1)}
            /\ mcPhase' = "unmounted"
            /\ UNCHANGED mapInstanceRef
       ELSE /\ liveMaps' = liveMaps \cup {LeafletMap(created + 1, mcProps)}
            /\ mapInstanceRef' = Some(created + 1)
            /\ mcPhase' = "idle"
    /\ UNCHANGED <<mcProps, backendVars, uiVars, statVars>>

----------------------------------------------------------------------------
(* Specifications *)

\* The route alone, two invocations with requests of any caller.
Init == InitBackend /\ InitUI /\ InitStats /\ InitMap

Next ==
    \E h \in Handlers :
        \/ POST_Start(h)
        \/ POST_ParseBody(h)
        \/ POST_Build(h)
        \/ AI_FetchSettled(h)
        \/ AI_JsonSettled(h)

Spec == Init /\ [][Next]_vars

\* The page and the route: the requests are those handleAnalyze sends, one
\* at a time, to one invocation slot.
AppHandlers == {1}

NextApp ==
    \/ UI_Edit
    \/ UI_Analyze
    \/ UI_StepTimer
    \/ UI_FetchFailed
    \/ UI_JsonSettled
    \/ UI_DownloadReport
    \/ \E h \in AppHandlers :
        \/ POST_Receive(h)
        \/ UI_FetchResponded(h)
        \/ POST_ParseBody(h)
        \/ POST_Build(h)
        \/ AI_FetchSettled(h)
        \/ AI_JsonSettled(h)

SpecApp == Init /\ [][NextApp]_vars

\* The steps a started run waits for: its timers, its fetch and the
\* invocation that answers it.
RunAdvances ==
    \/ UI_StepTimer
    \/ UI_FetchFailed
    \/ UI_JsonSettled
    \/ \E h \in AppHandlers :
        \/ POST_Receive(h)
        \/ UI_FetchResponded(h)
        \/ POST_ParseBody(h)
        \/ POST_Build(h)
        \/ AI_FetchSettled(h)
        \/ AI_JsonSettled(h)

\* ndvi_stats over every combination of its four draws.
InitStatsOnly ==
    /\ InitBackend /\ InitUI /\ InitMap
    /\ statsIn \in StatDraws
    /\ statsOut = NoBody

SpecStats == InitStatsOnly /\ [][Summarize]_vars

\* One MapComponent under renders with any props.
NextMap ==
    \/ MC_Mount
    \/ MC_Render
    \/ MC_Unmount
    \/ MC_Cleanup
    \/ MC_Effect

SpecMap == Init /\ [][NextMap]_vars

----------------------------------------------------------------------------
(* Vocabulary of the properties *)

\* Invocation h answered with an analysis result (status 200).
Success(h) == pc[h] = "done" /\ response[h].status = 200

\* The analysis result invocation h answered with.
Result(h) == response[h].json

\* The recommendation kinds of the rule table, by the texts that state them.
\* The handler has no text for a moderate or significant stress statement,
\* for a trend warning, for a trend confirmation or for irrigation.
IsGoodHealth(item) == item.text = HealthGoodText
IsModerateStress(item) == item.text = "moderate stress"
IsSignificantStress(item) == item.text = "significant stress"
IsVariableRate(item) == item.text = VariableRateText
IsSoilSampling(item) == item.text = SoilSamplingText
IsLowVigorStress(item) == item.text = LowVigorText
IsTrendWarning(item) == item.text = "trend warning"
IsTrendConfirmation(item) == item.text = "trend confirmation"

\* Some item of the list recs is of the kind Is.
Has(recs, Is(_)) == \E i \in 1 .. Len(recs) : Is(recs[i])

StrictlyIncreasing(s) == \A i \in 1 .. (Len(s) - 1) : s[i] < s[i + 1]

\* A method parameter of body b is outside its valid domain.
InvalidParameter(b) ==
    \/ (b.num_zones # Undefined /\ b.num_zones[1] <= 0)
    \/ b.eps_value <= 0
    \/ b.bandwidth <= 0

----------------------------------------------------------------------------
(* Properties *)

\* C1: in every successful result the recommendations contain a trend
\* warning when the trend is decreasing, a trend confirmation when it is
\* increasing, and neither when it is stable.
C1_TrendRecommendation ==
    \A h \in Handlers : Success(h) =>
        LET trend == Result(h).ndvi_time_series.trend
            recs == Result(h).recommendations
        IN /\ trend = "decreasing" => Has(recs, IsTrendWarning)
           /\ trend = "increasing" => Has(recs, IsTrendConfirmation)
           /\ trend = "stable" =>
                ~Has(recs, IsTrendWarning) /\ ~Has(recs, IsTrendConfirmation)

\* C2: in every successful result the general-health recommendation follows
\* ndvi_stats.mean: good health when mean >= 0.6, moderate stress when
\* 0.3 <= mean < 0.6, significant stress when mean < 0.3.
C2_HealthKeyedOffMean ==
    \A h \in Handlers : Success(h) =>
        LET mean == Result(h).ndvi_stats.mean
            recs == Result(h).recommendations
        IN /\ Has(recs, IsGoodHealth) => mean >= Lit(600)
           /\ (Lit(300) <= mean /\ mean < Lit(600)) => Has(recs, IsModerateStress)
           /\ mean < Lit(300) => Has(recs, IsSignificantStress)

\* C3: whenever the NDVI series of a result is strictly increasing and has
\* at least 2 points, the trend of that result is increasing.
C3_IncreasingSeriesIncreasingTrend ==
    \A h \in Handlers : Success(h) =>
        LET series == Result(h).ndvi_time_series
        IN (Len(series.ndvi_values) >= 2 /\ StrictlyIncreasing(series.ndvi_values))
             => series.trend = "increasing"

\* C4: the variable-application recommendation is there exactly when the
\* result's zone count is greater than 1, and the count it cites is
\* zones_identified of the same result.
C4_VariableRateIffSeveralZones ==
    \A h \in Handlers : Success(h) =>
        LET recs == Result(h).recommendations
            zones == Result(h).zones_identified
        IN /\ Has(recs, IsVariableRate) <=> zones > 1
           /\ \A i \in 1 .. Len(recs) :
                IsVariableRate(recs[i]) => recs[i].cites = <<zones>>

\* C5: a request with a method parameter outside its valid domain
\* (num_zones <= 0, eps_value <= 0 or bandwidth <= 0) ends in an error and
\* never in a successful result.
C5_InvalidParameterIsAnError ==
    \A h \in Handlers :
        (pc[h] = "done" /\ request[h].parsable /\ InvalidParameter(request[h].json))
            => response[h].status # 200

\* C6: two Mean Shift requests that differ only in num_zones report the same
\* zones_identified.
C6_MeanShiftZonesNotAnInput ==
    \A g, h \in Handlers :
        ( /\ Success(g) /\ Success(h)
          /\ body[g].clustering_method = "Mean Shift"
          /\ body[h].clustering_method = "Mean Shift"
          /\ [body[g] EXCEPT !.num_zones = body[h].num_zones] = body[h] )
        => Result(g).zones_identified = Result(h).zones_identified

\* C7: two invocations given identical request bodies return identical
\* results: same ndvi_stats, same trend and series, same rainfall statistics.
C7_SameBodySameResult ==
    \A g, h \in Handlers :
        (Success(g) /\ Success(h) /\ body[g] = body[h]) =>
            /\ Result(g).ndvi_stats = Result(h).ndvi_stats
            /\ Result(g).ndvi_time_series = Result(h).ndvi_time_series
            /\ Result(g).rainfall_data = Result(h).rainfall_data

\* C8: the recommendations are a function of the request: two requests with
\* identical bodies yield the same recommendation strings in the same order.
C8_SameBodySameRecommendations ==
    \A g, h \in Handlers :
        (Success(g) /\ Success(h) /\ body[g] = body[h]) =>
            Result(g).recommendations = Result(h).recommendations

\* Two invocations answered the same body, with different draws.
C8_Witness ==
    /\ Success(1) /\ Success(2)
    /\ body[1] = body[2]
    /\ Result(1).ndvi_stats # Result(2).ndvi_stats
    /\ Result(1).ndvi_time_series.trend # Result(2).ndvi_time_series.trend

\* C9: in every result with rainfall data, avg_daily_rainfall is
\* total_rainfall divided by the number of rainfall samples of the result.
C9_AverageIsTotalOverCount ==
    \A h \in Handlers :
        (Success(h) /\ Result(h).rainfall_data # Undefined) =>
            LET rain == Result(h).rainfall_data[1]
            IN rain.avg_daily_rainfall * Len(rain.rainfall_values) = rain.total_rainfall

\* C10: in every result with rainfall data, total_rainfall is the sum of
\* rainfall_values and max_daily_rainfall is their maximum.
C10_SummaryOfReturnedSamples ==
    \A h \in Handlers :
        (Success(h) /\ Result(h).rainfall_data # Undefined) =>
            LET rain == Result(h).rainfall_data[1]
            IN /\ rain.total_rainfall = SeqSum(rain.rainfall_values)
               /\ rain.max_daily_rainfall = SeqMax(rain.rainfall_values)

\* The general-health item of the rule table, whatever it says.
IsGeneralHealth(item) ==
    IsGoodHealth(item) \/ IsModerateStress(item) \/ IsSignificantStress(item)

NonDecreasing(s) == \A i \in 1 .. (Len(s) - 1) : s[i] <= s[i + 1]

\* Every item of kind A stands before every item of kind B in recs.
Before(recs, A(_), B(_)) ==
    \A i, j \in 1 .. Len(recs) : (A(recs[i]) /\ B(recs[j])) => i < j

\* C11 as stated: in the zone listing of a result with n >= 1 zones, zone 1
\* is labelled low vigor, zone n high vigor and every zone strictly between
\* them moderate vigor.
C11_ZoneLabelsAsStated ==
    \A h \in Handlers :
        (Success(h) /\ Result(h).zones_identified >= 1) =>
            LET n == Result(h).zones_identified
                listing == ZoneListing(n)
            IN /\ listing[1] = "Low vigor"
               /\ listing[n] = "High vigor"
               /\ \A k \in 2 .. (n - 1) : listing[k] = "Moderate vigor"

\* C11, amended: the listing has one entry per zone; with n >= 2 zones
\* (n an integer), zone 1 is labelled low vigor, zone n high vigor and every
\* zone strictly between them moderate vigor; a single zone is labelled low
\* vigor.
C11_ZoneLabels ==
    \A h \in Handlers :
        (Success(h) /\ Result(h).zones_identified >= 1) =>
            LET n == Result(h).zones_identified
                listing == ZoneListing(n)
            IN /\ Len(listing) = n
               /\ listing[1] = "Low vigor"
               /\ n >= 2 => listing[n] = "High vigor"
               /\ \A k \in 2 .. (n - 1) : listing[k] = "Moderate vigor"

\* A result with a zone strictly between the first and the last.
C11_Witness ==
    \E h \in Handlers : Success(h) /\ Result(h).zones_identified >= 3

\* C12: every successful result contains a soil-sampling recommendation.
C12_SoilSamplingAlways ==
    \A h \in Handlers :
        Success(h) => Has(Result(h).recommendations, IsSoilSampling)

\* A successful result for a request with a single zone, and one for a
\* request whose narrative call was made.
C12_Witness ==
    /\ Success(1) /\ Result(1).zones_identified = 1
    /\ Success(2) /\ Result(2).ai_insights # Undefined

\* C13: in every result the general-health item comes before the zone
\* variable-application item, which comes before the soil-sampling item,
\* which comes before the low-vigor stress item.
C13_RuleDeclarationOrder ==
    \A h \in Handlers : Success(h) =>
        LET recs == Result(h).recommendations
        IN /\ Before(recs, IsGeneralHealth, IsVariableRate)
           /\ Before(recs, IsVariableRate, IsSoilSampling)
           /\ Before(recs, IsSoilSampling, IsLowVigorStress)

\* A result that holds all four items.
C13_Witness ==
    \E h \in Handlers :
        /\ Success(h)
        /\ Has(Result(h).recommendations, IsGeneralHealth)
        /\ Has(Result(h).recommendations, IsVariableRate)
        /\ Has(Result(h).recommendations, IsSoilSampling)
        /\ Has(Result(h).recommendations, IsLowVigorStress)

\* C18: in every result both date series are sorted ascending and aligned
\* with their values: dates is non-decreasing and as long as the values, so
\* every chart point has a value.
C18_DatesSortedAndAligned ==
    \A h \in Handlers : Success(h) =>
        LET series == Result(h).ndvi_time_series
            rain == Result(h).rainfall_data[1]
        IN /\ NonDecreasing(series.dates)
           /\ Len(series.dates) = Len(series.ndvi_values)
           /\ \A i \in 1 .. Len(series.dates) :
                FormatData(series.dates, series.ndvi_values)[i].value # Undefined
           /\ NonDecreasing(rain.dates)
           /\ Len(rain.dates) = Len(rain.rainfall_values)
           /\ \A i \in 1 .. Len(rain.dates) :
                FormatData(rain.dates, rain.rainfall_values)[i].value # Undefined

\* A result whose series have the 7 and the 10 points of the handler.
C18_Witness ==
    \E h \in Handlers :
        /\ Success(h)
        /\ Len(Result(h).ndvi_time_series.dates) = NdviPoints
        /\ Len(Result(h).rainfall_data[1].dates) = RainfallDays
        /\ Result(h).ndvi_time_series.dates[NdviPoints] = Today

\* C19: every index value of a result (ndvi_stats mean, min, max and every
\* element of ndvi_values) lies in [-1, 1], and every rainfall value and
\* rainfall statistic is >= 0.
C19_ValueRanges ==
    \A h \in Handlers : Success(h) =>
        LET stats == Result(h).ndvi_stats
            values == Result(h).ndvi_time_series.ndvi_values
            rain == Result(h).rainfall_data[1]
            InIndexRange(x) == -Lit(1000) <= x /\ x <= Lit(1000)
        IN /\ InIndexRange(stats.mean)
           /\ InIndexRange(stats.min)
           /\ InIndexRange(stats.max)
           /\ \A i \in 1 .. Len(values) : InIndexRange(values[i])
           /\ \A i \in 1 .. Len(rain.rainfall_values) : rain.rainfall_values[i] >= 0
           /\ rain.total_rainfall >= 0
           /\ rain.avg_daily_rainfall >= 0
           /\ rain.max_daily_rainfall >= 0

\* A result built from the smallest draw and one built from the largest:
\* a rainfall sample of 0, and the largest last NDVI value.
C19_Witness ==
    \E h \in Handlers :
        /\ Success(h)
        /\ Result(h).rainfall_data[1].rainfall_values[1] = 0
        /\ Result(h).ndvi_time_series.ndvi_values[NdviPoints]
             = Lit(900) + MulLit(1000 * (RandDen - 1) - Lit(500), 100)

\* C20: whenever ai_insights is present in a successful response it has the
\* fields the page renders: report, suggestions, risk_assessment and
\* management_plan.
C20_InsightsHaveRenderedShape ==
    \A h \in Handlers :
        (Success(h) /\ Result(h).ai_insights # Undefined) =>
            RenderedInsightFields \subseteq DOMAIN Result(h).ai_insights[1]

\* The narrative generator failed for invocation h: network error, non-OK
\* status, reply that is no JSON or has no choices, or a content that is
\* not JSON.
NarrativeFailed(h) ==
    \/ narrative[h].kind \in {"rejected", "not_ok", "not_json", "no_choices"}
    \/ (narrative[h].kind = "content" /\ ~narrative[h].content.isJson)

\* C14: under any interleaving of two POST handlers, each response's
\* zones_identified, crop_type, crop_growth_stage, recommendations and
\* ai_insights derive from that invocation's own request and own narrative
\* reply.
C14_NoInterference ==
    \A h \in Handlers : Success(h) =>
        LET own == request[h].json
            res == Result(h)
        IN /\ res.zones_identified = OrElse(own.num_zones, DefaultZones)
           /\ res.crop_type = own.crop_type
           /\ res.crop_growth_stage = own.crop_growth_stage
           /\ res.recommendations = Recommendations(own)
           /\ res.ai_insights = InsightsOf(narrative[h])

\* Both invocations answered, for different crops, one of them with the
\* insights of its narrative reply.
C14_Witness ==
    /\ Success(1) /\ Success(2)
    /\ Result(1).crop_type = "Rice" /\ Result(2).crop_type = "Wheat"
    /\ Result(1).ai_insights = Undefined
    /\ Result(2).ai_insights # Undefined

\* C15: a failure of the narrative generator never fails the analysis: the
\* handler answers with a successful result that has all the fields of
\* mockResponse, with ai_insights absent or set to the fallback object.
C15_NarrativeFailureTolerated ==
    \A h \in Handlers :
        (pc[h] = "done" /\ NarrativeFailed(h)) =>
            /\ response[h].status = 200
            /\ \E rnd \in DrawSet :
                 [Result(h) EXCEPT !.ai_insights = Undefined] = MockResponse(body[h], rnd)
            /\ LET ins == Result(h).ai_insights
               IN \/ ins = Undefined
                  \/ /\ narrative[h].kind = "content"
                     /\ DOMAIN ins[1] = RenderedInsightFields
                     /\ ins[1].report = narrative[h].content.text

\* One invocation ended after a non-OK reply, the other after prose that is
\* not JSON.
C15_Witness ==
    /\ pc[1] = "done" /\ narrative[1].kind = "not_ok"
    /\ pc[2] = "done" /\ narrative[2].kind = "content"
    /\ ~narrative[2].content.isJson
    /\ Result(2).ai_insights # Undefined

\* C16: nothing is retried: one POST invocation makes at most one call of
\* the narrative service and one handleAnalyze run sends at most one request
\* to the backend, also when the call fails.
C16_NoRetry ==
    /\ \A h \in Handlers : calls[h] <= 1
    /\ sent <= 1

\* A run of handleAnalyze ended in an error after its one request, the
\* invocation before it having ended after a failed narrative call.
C16_Witness ==
    /\ uiPc = "idle" /\ error # Undefined /\ sent = 1
    /\ pc[1] = "done" /\ calls[1] = 1
    /\ narrative[1].kind \in {"rejected", "not_ok"}

\* C17: the statistics of a result are consistent for every combination of
\* draws: min <= mean <= max and 0 <= stddev <= (max - min) / 2.
C17_StatsConsistent ==
    statsOut # NoBody =>
        /\ statsOut.min <= statsOut.mean
        /\ statsOut.mean <= statsOut.max
        /\ 0 <= statsOut.stddev
        /\ 2 * statsOut.stddev <= statsOut.max - statsOut.min

\* The statistics of the largest mean, stddev and min with the smallest max.
C17_Witness ==
    /\ statsOut # NoBody
    /\ statsIn.mean = 1000 * (RandDen - 1)
    /\ statsIn.stddev = 1000 * (RandDen - 1)
    /\ statsIn.min = 1000 * (RandDen - 1)
    /\ statsIn.max = 0

\* C25: ai_insights is present in a response only if the request had both
\* use_ai_insights and groq_api_key truthy and generateAIInsights returned a
\* non-null value; when either flag is falsy the narrative service is never
\* called.
C25_InsightsOnlyWhenAsked ==
    \A h \in Handlers :
        /\ (Success(h) /\ Result(h).ai_insights # Undefined) =>
              /\ body[h].use_ai_insights
              /\ body[h].groq_api_key # ""
              /\ InsightsOf(narrative[h]) # Undefined
        /\ (body[h] # NoBody
              /\ ~(body[h].use_ai_insights /\ body[h].groq_api_key # "")) =>
              /\ calls[h] = 0
              /\ narrative[h] = NoReply

\* One invocation answered a request that asks for insights without a key,
\* the other answered with the insights of its narrative reply.
C25_Witness ==
    /\ Success(1)
    /\ body[1].use_ai_insights /\ body[1].groq_api_key = ""
    /\ Result(1).ai_insights = Undefined
    /\ Success(2)
    /\ calls[2] = 1
    /\ Result(2).ai_insights # Undefined

\* C21: the report downloadReport writes and the props of the field map
\* pair the results with the request that produced them: at every download,
\* the location, period and crop type of the report, and the location and
\* radius given to the map, are those of the request whose response is the
\* current results.
C21_ReportPairsResultsWithRequest ==
    [][ downloads' # downloads =>
          LET report == ReportOf(formData, results[1])
              map == MapProps(formData, results[1])
          IN /\ report.location = <<resultsRequest.latitude, resultsRequest.longitude>>
             /\ report.period = <<resultsRequest.start_date, resultsRequest.end_date>>
             /\ report.crop_type = resultsRequest.crop_type
             /\ map.latitude = resultsRequest.latitude
             /\ map.longitude = resultsRequest.longitude
             /\ map.bufferSize = resultsRequest.buffer_size ]_vars

\* C22: a failed run leaves results unchanged: the step that sets the error
\* of a run does not touch results, and no step clears results once set, so
\* earlier results and a new error message stand together.
C22_FailedRunKeepsResults ==
    [][ /\ (error' # Undefined /\ error' # error) => results' = results
        /\ (results # Undefined) => results' # Undefined ]_vars

\* The first run stored results and the second one failed.
C22_Witness ==
    /\ uiPc = "idle"
    /\ runs = 2
    /\ results # Undefined
    /\ error # Undefined

\* C23: at most one handleAnalyze run is in flight at any time, and loading
\* (which disables the Analyze button) is set exactly while one is, from its
\* start to its finally block.
C23_OneRunInFlight ==
    /\ active <= 1
    /\ loading <=> (active = 1)
    /\ loading <=> (uiPc # "idle")

\* The second run waits for its fetch, the first having ended.
C23_Witness ==
    /\ runs = 2
    /\ active = 1
    /\ loading
    /\ uiPc = "await_fetch"
    /\ results # Undefined

\* Awaits invocation h has before it answers.
RouteRank(h) ==
    CASE pc[h] = "await_json"    -> 4
      [] pc[h] = "await_delay"   -> 3
      [] pc[h] = "await_fetch"   -> 2
      [] pc[h] = "await_ai_json" -> 1
      [] OTHER                   -> 0

\* An upper bound of the awaits the running handleAnalyze has before it
\* returns: 0 when no run is in flight.
Rank ==
    CASE uiPc = "await_step" -> 8 + (Len(Steps(runForm)) - 1 - stepIdx)
      [] uiPc = "await_fetch" /\ net.kind = "request" -> 7
      [] uiPc = "await_fetch" -> 2 + RouteRank(CHOOSE h \in AppHandlers : TRUE)
      [] uiPc = "await_json" -> 1
      [] OTHER -> 0

\* C24: every started run ends once its timers have fired and its request
\* has settled: while a run is in flight one of these steps is enabled, each
\* of them lowers the number of awaits left and no other step raises it; a
\* run that has ended, whether its request succeeded, was answered not OK
\* or threw, leaves loading = false and progress = 100; and currentStep is
\* "Analysis complete!" only when the last run stored its results.
C24_RunsEnd ==
    /\ []((uiPc # "idle") => (Rank > 0 /\ ENABLED RunAdvances))
    /\ [][ /\ (uiPc # "idle") => Rank' <= Rank
           /\ RunAdvances => Rank' < Rank ]_vars
    /\ []((uiPc = "idle" /\ runs > 0) => (~loading /\ progress = 300))
    /\ [](currentStep = "Analysis complete!" =>
            /\ uiPc = "idle"
            /\ error = Undefined
            /\ results # Undefined
            /\ resultsRequest = runForm)

\* A run that stored results, then a run whose fetch threw: both ended.
C24_Witness ==
    /\ uiPc = "idle"
    /\ runs = 2
    /\ ~loading
    /\ progress = 300
    /\ results # Undefined
    /\ error = Some("Failed to fetch")
    /\ currentStep # "Analysis complete!"

\* C26: an exception of the POST handler outside the narrative call (an
\* unparsable request body) gives a response of status 500 with the body
\* {error: "Analysis failed"}; and the page turns a response that is not OK
\* into error = "Analysis failed" without calling setResults.
C26_FailuresReported ==
    /\ [](\A h \in Handlers :
            (pc[h] = "done" /\ ~request[h].parsable) =>
                response[h] = [status |-> 500, json |-> [error |-> "Analysis failed"]])
    /\ [][ (uiPc = "await_fetch" /\ uiPc' = "idle") =>
             /\ results' = results
             /\ error' \in {Some("Analysis failed"), Some("Failed to fetch")}
             /\ (net.kind = "processing" => error' = Some("Analysis failed")) ]_vars

\* The route answered the second run with status 500: the page shows the
\* error beside the results of the first run.
C26_Witness ==
    /\ uiPc = "idle"
    /\ net = NoFetch
    /\ sent = 1
    /\ pc[1] = "done"
    /\ ~request[1].parsable
    /\ response[1].status = 500
    /\ error = Some("Analysis failed")
    /\ results # Undefined
    /\ "ndvi_stats" \in DOMAIN results[1]

\* C27: at most one map is live per MapComponent: an effect run starts with
\* no live map and mapInstanceRef null (the cleanup came first), after the
\* unmount no map remains, and the live map of a rendered component holds
\* exactly `zones` zone circles.
C27_OneLiveMap ==
    /\ Cardinality(liveMaps) <= 1
    /\ (mcPhase = "effect") => (liveMaps = {} /\ mapInstanceRef = Undefined)
    /\ (mcPhase = "unmounted") => (liveMaps = {})
    /\ (mcPhase = "idle") =>
          /\ mapInstanceRef # Undefined
          /\ \A m \in liveMaps :
                m.id = mapInstanceRef[1] /\ Len(m.circles) = mcProps.zones

====
